---- MODULE Spec2Model ----
(***************************************************************************)
(* A model of wallet_gen.py: the startup of main, the menu loop that       *)
(* starts batches, the generate -> derive -> check -> classify -> append   *)
(* pipeline of scan_wallets_batch with its pool threads, the JSON stores   *)
(* it appends to, the global STATS counters and the Telegram messages the  *)
(* main thread posts.                                                      *)
(*                                                                         *)
(* Amounts (token amounts, native balances, USD totals) are counted in     *)
(* halves of a unit: the model's 3 stands for 1.5.  Every such value is a  *)
(* dyadic rational far below 2^53, so the program's Decimal(str(x)) and    *)
(* float(d) conversions are exact on them and sums carry no rounding.      *)
(***************************************************************************)
EXTENDS Integers, Sequences, FiniteSets

VARIABLES
    pc,             \* where the main thread is: "start", "menu", "exit"; in the
                    \* generate loop "gen", "derive"; in the drain loop
                    \* "drain", "stats", "load", "open", "dump", "progress";
                    \* or inside the requests.post of a notification
                    \* ("post_start", "post_found", "post_empty", "post_complete")
    batch,          \* number of scan_wallets_batch calls started so far
    count,          \* scan_wallets_batch's count
    max_workers,    \* scan_wallets_batch's max_workers
    slot,           \* the generate loop's i (slots 1..slot are done)
    STATS,          \* the global STATS dictionary (the five counters)
    found_count,    \* scan_wallets_batch's local found_count
    empty_count,    \* scan_wallets_batch's local empty_count
    futures,        \* slot -> the future submitted for it
    finished,       \* the futures in the order they finished
    pre_finished,   \* the futures as_completed found finished when called
    drained,        \* the futures the drain loop has processed, in order
    hasil,          \* the file OUTPUT_FILE (the found store)
    empty_wallets,  \* the file EMPTY_WALLETS_FILE (the empty store)
    io,             \* the list the append in progress holds (existing), and
                    \* bookkeeping of the I/O failures that have happened
    progress,       \* the value print_progress_bar last showed
    chk,            \* one check_single_wallet call on its own
    writers,        \* concurrent callers of append_to_results
    MNEMONIC_AVAILABLE, \* the global set by the import of mnemonic
    BIP39_WORDLIST, \* the global word list: "None" or "words"
    TELEGRAM_ENABLED,   \* the global: bot token and chat id are both set
    telegram,       \* what has become of the messages posted to the bot
    random          \* what random.choice draws in this run: "fresh" words for
                    \* every phrase, or the words of one phrase again ("repeat")

vars == <<pc, batch, count, max_workers, slot, STATS, found_count, empty_count,
          futures, finished, pre_finished, drained, hasil, empty_wallets, io,
          progress, chk, writers, MNEMONIC_AVAILABLE, BIP39_WORDLIST,
          TELEGRAM_ENABLED, telegram, random>>

\* the module globals no statement assigns after startup, and the source of
\* randomness
Globals == <<MNEMONIC_AVAILABLE, BIP39_WORDLIST, TELEGRAM_ENABLED, random>>

----------------------------------------------------------------------------
(* Bounds of the model. *)

\* longest token list the token-holdings source returns
MaxItems == 2

\* candidates generated in one run of the program, over all its scans
MaxGenerated == 2

\* I/O failures the stores meet in one run of the program
MaxFaults == 1

\* threads calling append_to_results at the same time
MaxWriters == 3

\* records the found store holds before those calls
MaxPrior == 1

\* DEFAULT_WORKERS when CONCURRENT_WORKERS is not set
DEFAULT_WORKERS == 16

\* values of concurrent_workers in config.json; 0 stands for "not set" (and
\* for a 0 written there, which `or` treats alike)
WorkerConfigs == {-1, 0, 1, 2}

----------------------------------------------------------------------------
(* The answers of the external sources. *)

\* token symbols as the source spells them; "" is an entry without a symbol
Symbols == {"", "ETH", "eth"}

\* amounts in halves of a unit: none, or 1.5 units
Amounts == {0, 3}

\* prices in whole dollars; a missing price is read as 0 (line 456)
Prices == {0, 2000}

\* an entry with a negative amount, named and priced
NegativeEntry == [symbol |-> "ETH", amount |-> -2, price |-> 2000]

TokenEntries == [symbol : Symbols, amount : Amounts, price : Prices] \cup {NegativeEntry}

RECURSIVE SeqsUpTo(_, _)
SeqsUpTo(S, n) ==
    IF n = 0 THEN {<<>>}
    ELSE LET shorter == SeqsUpTo(S, n - 1)
         IN  shorter \cup {Append(s, x) : s \in {t \in shorter : Len(t) = n - 1}, x \in S}

\* what requests.get / r.json() can give fetch_debank_for_address
DebankFailures == {"no_key", "timeout", "rate_limited", "http_error", "malformed"}

DebankAnswers ==
    {[status |-> "ok", items |-> its] : its \in SeqsUpTo(TokenEntries, MaxItems)}
    \cup {[status |-> st, items |-> <<>>] : st \in DebankFailures}

\* what one chain's get_balance and get_transaction_count give; bal in halves
\* of the native unit.  A call raises (bal_ok, nonce_ok FALSE) or returns;
\* what get_transaction_count returns is an integer (0, 5, and 3 on a chain
\* without balance) or a malformed answer that is no number at all (None:
\* nonce_int FALSE).  A malformed balance makes Decimal(bal_wei) raise inside
\* the try of line 469 and is one of the calls with bal_ok FALSE.
ChainAnswers ==
    {a \in [bal_ok : BOOLEAN, bal : {0, 1}, nonce_ok : BOOLEAN, nonce_int : BOOLEAN,
            nonce : {0, 3, 5}] :
        /\ (~a.bal_ok => a.bal = 0)
        /\ (~a.nonce_ok => a.nonce = 0 /\ a.nonce_int)
        /\ (~a.nonce_int => a.nonce = 0)
        /\ (a.nonce = 3 => a.bal_ok /\ a.bal = 0)}

\* web3_clients as build_web3_clients leaves it: chain -> native_symbol
ClientConfigs ==
    { <<>>,
      <<[chain |-> "eth", native_symbol |-> "ETH"]>>,
      <<[chain |-> "eth", native_symbol |-> "ETH"],
        [chain |-> "arb", native_symbol |-> "ETH"]>>,
      <<[chain |-> "eth", native_symbol |-> "ETH"],
        [chain |-> "bsc", native_symbol |-> "BNB"]>> }

----------------------------------------------------------------------------
(* Pure helpers. *)

\* str.upper() on the symbols of the model
Upper(s) == IF s = "eth" THEN "ETH" ELSE s

\* d[k] = v on a dictionary held as a function
DictSet(d, k, v) == [x \in DOMAIN d \cup {k} |-> IF x = k THEN v ELSE d[x]]

\* d.get(k, default)
DictGet(d, k, default) == IF k \in DOMAIN d THEN d[k] ELSE default

\* d.update(e)
DictUpdate(d, e) == [x \in DOMAIN d \cup DOMAIN e |-> IF x \in DOMAIN e THEN e[x] ELSE d[x]]

EmptyDict == [x \in {} |-> 0]

Max(a, b) == IF a > b THEN a ELSE b

----------------------------------------------------------------------------
(* fetch_debank_for_address: None, or {"coins", "balance_usd"}. *)

NoDebank == [some |-> FALSE, coins |-> EmptyDict, balance_usd |-> 0]

\* the loop body keeping every entry with a symbol and an amount other
\* than 0
DebankItem_AnyAmount(acc, t) ==
    LET sym == Upper(t.symbol)
    IN  IF t.amount # 0 /\ sym # ""
        THEN [acc EXCEPT !.coins = DictSet(acc.coins, sym, t.amount),
                         !.balance_usd = acc.balance_usd + t.amount * t.price]
        ELSE acc

\* the loop body of lines 452-461 on one entry
DebankItem(acc, t) ==
    LET sym == Upper(t.symbol)
    IN  IF t.amount > 0 /\ sym # ""
        THEN [acc EXCEPT !.coins = DictSet(acc.coins, sym, t.amount),
                         !.balance_usd = acc.balance_usd + t.amount * t.price]
        ELSE acc

RECURSIVE DebankLoop(_, _, _)
DebankLoop(items, k, acc) ==
    IF k > Len(items) THEN acc
    ELSE DebankLoop(items, k + 1, DebankItem(acc, items[k]))

fetch_debank_for_address(ans) ==
    IF ans.status # "ok" THEN NoDebank
    ELSE DebankLoop(ans.items, 1, [some |-> TRUE, coins |-> EmptyDict, balance_usd |-> 0])

----------------------------------------------------------------------------
(* fetch_native_balance_for_chain / fetch_nonce_for_chain. *)

\* None on any exception, else the balance
fetch_native_balance_for_chain(a) ==
    IF a.bal_ok THEN [some |-> TRUE, val |-> a.bal] ELSE [some |-> FALSE, val |-> 0]

\* 0 on any exception, else what get_transaction_count returned, as it is
\* (line 483): int says whether that is an integer
fetch_nonce_for_chain(a) ==
    IF a.nonce_ok THEN [int |-> a.nonce_int, val |-> a.nonce] ELSE [int |-> TRUE, val |-> 0]

----------------------------------------------------------------------------
(* check_single_wallet, after its counter increment (lines 496-542). *)

\* AfterDebank with line 514 testing the USD total alone
AfterDebank_UsdOnly(d) ==
    LET takes == d.some /\ d.balance_usd > 0
    IN  [balance_usd |-> IF takes THEN d.balance_usd ELSE 0,
         coins       |-> IF takes THEN DictUpdate(EmptyDict, d.coins) ELSE EmptyDict,
         chains      |-> <<>>,
         max_nonce   |-> 0,
         has_value   |-> takes,
         rpc_calls   |-> 0,
         raised      |-> FALSE]

\* lines 496-517: the fresh result and the token-holdings branch
AfterDebank(d) ==
    LET takes == d.some /\ (DOMAIN d.coins # {} \/ d.balance_usd > 0)
    IN  [balance_usd |-> IF takes THEN d.balance_usd ELSE 0,
         coins       |-> IF takes THEN DictUpdate(EmptyDict, d.coins) ELSE EmptyDict,
         chains      |-> <<>>,
         max_nonce   |-> 0,
         has_value   |-> takes,
         rpc_calls   |-> 0,
         raised      |-> FALSE]

\* ChainStep listing every chain that shows activity: a positive balance
\* or a positive transaction count
ChainStep_ListsUsedChains(acc, client, a) ==
    LET bal   == fetch_native_balance_for_chain(a)
        nonce == fetch_nonce_for_chain(a)
        pos   == bal.some /\ bal.val > 0
        prev  == DictGet(acc.coins, client.native_symbol, 0)
    IN  [acc EXCEPT
           !.chains    = IF pos \/ (nonce.int /\ nonce.val > 0)
                         THEN Append(@, client.chain) ELSE @,
           !.coins     = IF pos THEN DictSet(@, client.native_symbol, prev + bal.val) ELSE @,
           !.has_value = @ \/ pos,
           !.max_nonce = IF nonce.int THEN Max(@, nonce.val) ELSE @,
           !.raised    = ~nonce.int,
           !.rpc_calls = @ + 2]

\* ChainStep keeping the count of the chain asked last
ChainStep_LastNonce(acc, client, a) ==
    LET bal   == fetch_native_balance_for_chain(a)
        nonce == fetch_nonce_for_chain(a)
        pos   == bal.some /\ bal.val > 0
        prev  == DictGet(acc.coins, client.native_symbol, 0)
    IN  [acc EXCEPT
           !.chains    = IF pos THEN Append(@, client.chain) ELSE @,
           !.coins     = IF pos THEN DictSet(@, client.native_symbol, prev + bal.val) ELSE @,
           !.has_value = @ \/ pos,
           !.max_nonce = IF nonce.int THEN nonce.val ELSE @,
           !.raised    = ~nonce.int,
           !.rpc_calls = @ + 2]

\* lines 522-532: the loop body for one chain.  The comparison of line 531
\* is outside every try: on a nonce that is no number it raises TypeError,
\* which leaves the loop and check_single_wallet.
ChainStep(acc, client, a) ==
    LET bal   == fetch_native_balance_for_chain(a)
        nonce == fetch_nonce_for_chain(a)
        pos   == bal.some /\ bal.val > 0
        prev  == DictGet(acc.coins, client.native_symbol, 0)
    IN  [acc EXCEPT
           !.chains    = IF pos THEN Append(@, client.chain) ELSE @,
           !.coins     = IF pos THEN DictSet(@, client.native_symbol, prev + bal.val) ELSE @,
           !.has_value = @ \/ pos,
           !.max_nonce = IF nonce.int THEN Max(@, nonce.val) ELSE @,
           !.raised    = ~nonce.int,
           !.rpc_calls = @ + 2]

RECURSIVE ChainLoop(_, _, _, _)
ChainLoop(clients, answers, k, acc) ==
    IF k > Len(clients) \/ acc.raised THEN acc
    ELSE ChainLoop(clients, answers, k + 1, ChainStep(acc, clients[k], answers[k]))

\* The whole call: raised says whether an exception left it (the other
\* fields are then what the call had computed when it was raised); else
\* has_value says whether it returns the result or None.
check_single_wallet(clients, debank, answers) ==
    LET acc == ChainLoop(clients, answers, 1, AfterDebank(fetch_debank_for_address(debank)))
    IN  [raised      |-> acc.raised,
         has_value   |-> acc.has_value \/ acc.max_nonce > 0,
         balance_usd |-> acc.balance_usd,
         coins       |-> acc.coins,
         chains      |-> acc.chains,
         nonce       |-> acc.max_nonce,
         rpc_calls   |-> acc.rpc_calls]

----------------------------------------------------------------------------
(* The JSON stores: load_json_file, save_json_file, append_to_*.           *)
(* A file is its parsed content: valid says whether json.load accepts it   *)
(* as a list, recs is that list.                                           *)

\* lines 384-385 and 412-413: the address derived from the phrase drawn for
\* slot i of batch b; equal phrases give equal addresses
Address(b, i) == IF random = "repeat" THEN <<0, 0>> ELSE <<b, i>>

\* a record of a store: the address of its candidate; batch and slot stand
\* for the time in its found_at / checked_at
Rec(b, i, found) == [batch |-> b, slot |-> i, found |-> found, address |-> Address(b, i)]

\* the file does not exist yet: load_json_file returns [] (line 246)
NoFile == [valid |-> TRUE, recs |-> <<>>]

\* what open(path, "w") leaves before anything is written: no JSON at all
Truncated == [valid |-> FALSE, recs |-> <<>>]

\* json.dump and close by the only handle that has written to the file
\* since it was truncated: the file is the text of data
Dumped(data) == [valid |-> TRUE, recs |-> data]

\* a load that saw the file while an append had it open for writing
load_json_file_Overlapped(file, read_ok) == <<>>

\* expect_list=True: [] when the file cannot be read, is no JSON or no list
load_json_file(file, read_ok) ==
    IF read_ok /\ file.valid THEN file.recs ELSE <<>>

SaveOutcomes == {"ok", "open_failed", "write_failed"}

\* every exception is caught and printed; nothing is returned or raised
save_json_file(file, data, outcome) ==
    CASE outcome = "ok"           -> Dumped(data)
      [] outcome = "open_failed"  -> file
      [] outcome = "write_failed" -> Truncated

\* append_to_results and append_to_empty_wallets, on their own file
append_to_results(file, wallet_data, read_ok, outcome) ==
    save_json_file(file, Append(load_json_file(file, read_ok), wallet_data), outcome)

append_to_empty_wallets(file, wallet_data, read_ok, outcome) ==
    save_json_file(file, Append(load_json_file(file, read_ok), wallet_data), outcome)

\* how many I/O failures one append met
Failures(read_ok, outcome) ==
    (IF read_ok THEN 0 ELSE 1) + (IF outcome = "ok" THEN 0 ELSE 1)

----------------------------------------------------------------------------
(* Classification and the counters at the start of a batch. *)

\* lines 539-542 and 595: a returned result is FOUND, None is EMPTY
classify(r) == IF r.has_value THEN "FOUND" ELSE "EMPTY"

\* lines 569-576: scan_wallets_batch sets start_time and its two local
\* counts; the five counters of STATS keep their values
batch_start_stats(stats) == stats

----------------------------------------------------------------------------
(* Telegram: send_telegram_message and the notify_* functions that format  *)
(* a message and return its result.                                        *)

\* what requests.post gives: status 200, another status, or an exception
\* (connection refused, or no answer within timeout=10)
Deliveries == {"ok", "http_error", "timeout"}

\* send_telegram_message letting the exception of requests.post through
send_telegram_message_Raises(enabled, delivery) ==
    [ok     |-> enabled /\ delivery = "ok",
     raised |-> enabled /\ delivery = "timeout"]

\* lines 151-167: False when disabled, on a status other than 200 and on
\* every exception; True on status 200.  raised says whether an exception
\* leaves the function.
send_telegram_message(enabled, delivery) ==
    [ok     |-> enabled /\ delivery = "ok",
     raised |-> FALSE]

NoTelegram == [delivered |-> FALSE, lost |-> FALSE]

\* the bot's side after a post that ended with result r
Posted(tg, r) == [delivered |-> tg.delivered \/ r.ok, lost |-> tg.lost \/ ~r.ok]

\* the main thread is inside the requests.post of a notification
Posting == {"post_start", "post_found", "post_empty", "post_complete"}

----------------------------------------------------------------------------
(* Startup: main up to the call of menu_loop. *)

\* lines 362-377: the words of Mnemonic("english"), or False
load_bip39_wordlist(mnemonic_available, mnemo_ok) ==
    IF mnemonic_available /\ mnemo_ok
    THEN [ok |-> TRUE, wordlist |-> "words"]
    ELSE [ok |-> FALSE, wordlist |-> "None"]

\* main going on to the menu whatever load_bip39_wordlist returned
main_reaches_menu_Unchecked(mnemonic_available, loaded, cfg_ok) ==
    mnemonic_available /\ cfg_ok

\* lines 748-768: main returns when mnemonic is missing, when the word list
\* could not be loaded, and when config.json is missing or invalid
main_reaches_menu(mnemonic_available, loaded, cfg_ok) ==
    mnemonic_available /\ loaded /\ cfg_ok

\* lines 380-389: None without a word list, else a phrase
generate_random_12word_phrase(wordlist) == wordlist # "None"

\* lines 391-418: None without mnemonic or when the derivation raises
wallet_from_phrase(mnemonic_available, derivation_ok) ==
    mnemonic_available /\ derivation_ok

----------------------------------------------------------------------------
(* The batch: menu_loop, scan_wallets_batch and the pool's worker threads. *)

\* what the sources answer to the checks of a batch: nothing anywhere, or
\* the token-holdings call timing out while the chain reports nonce 5, or
\* the chain giving a transaction count that is no number
BatchClients == <<[chain |-> "eth", native_symbol |-> "ETH"]>>

BatchWorlds ==
    { [debank  |-> [status |-> "ok", items |-> <<>>],
       answers |-> <<[bal_ok |-> TRUE, bal |-> 0, nonce_ok |-> TRUE, nonce_int |-> TRUE,
                       nonce |-> 0]>>],
      [debank  |-> [status |-> "timeout", items |-> <<>>],
       answers |-> <<[bal_ok |-> TRUE, bal |-> 0, nonce_ok |-> TRUE, nonce_int |-> TRUE,
                       nonce |-> 5]>>],
      [debank  |-> [status |-> "ok", items |-> <<>>],
       answers |-> <<[bal_ok |-> TRUE, bal |-> 0, nonce_ok |-> TRUE, nonce_int |-> FALSE,
                       nonce |-> 0]>>] }

ZeroStats == [total_generated |-> 0, total_checked |-> 0, wallets_found |-> 0,
              empty_wallets |-> 0, errors |-> 0]

NoFutures == [t \in {} |-> 0]

NoResult == check_single_wallet(<<>>, [status |-> "no_key", items |-> <<>>], <<>>)

\* the futures a worker thread is executing
Running == {t \in DOMAIN futures : futures[t].state \in {"taken", "loaded", "stored"}}

Queued == {t \in DOMAIN futures : futures[t].state = "queued"}

Done == {t \in DOMAIN futures : futures[t].state = "finished"}

DrainedSet == {drained[k] : k \in 1..Len(drained)}

\* the drained futures whose check returned: future.result() gave the
\* result or None and raised nothing
ReturnedSet == {t \in DrainedSet : ~futures[t].result.raised}

\* the number a menu choice scans; 0 stands for "no scan"
MenuCount(ch, custom) ==
    CASE ch = "1" -> 10
      [] ch = "2" -> 100
      [] ch = "3" -> 1000
      [] ch = "4" -> 10000
      [] ch = "5" -> IF custom < 1 THEN 0 ELSE custom
      [] OTHER    -> 0

MenuChoices == {"1", "2", "3", "4", "5", "6", "7", "x"}

\* cfg.get("concurrent_workers") or DEFAULT_WORKERS
Workers(cfg_workers) == IF cfg_workers = 0 THEN DEFAULT_WORKERS ELSE cfg_workers

\* line 582: ThreadPoolExecutor(max_workers=...) raises ValueError unless
\* max_workers is above 0; the exception leaves scan_wallets_batch,
\* menu_loop and main and is printed at line 840.  Otherwise the generate
\* loop starts.
ThreadPoolExecutor_enter(workers) == IF workers >= 1 THEN "gen" ELSE "exit"

\* lines 548-583: what scan_wallets_batch sets up before its generate loop;
\* with Telegram enabled it first posts the start message (line 567)
BatchPrologue(n) ==
    /\ pc' = IF TELEGRAM_ENABLED THEN "post_start" ELSE ThreadPoolExecutor_enter(max_workers)
    /\ batch' = batch + 1
    /\ count' = n
    /\ slot' = 0
    /\ found_count' = 0
    /\ empty_count' = 0
    /\ futures' = NoFutures
    /\ finished' = <<>>
    /\ pre_finished' = {}
    /\ drained' = <<>>
    /\ io' = [io EXCEPT !.unsaved = {}]
    /\ STATS' = batch_start_stats(STATS)
    /\ UNCHANGED <<max_workers, hasil, empty_wallets, progress>>

\* lines 722-832: main from its start to the menu, or to its return.  The
\* connection test of line 807 is posted before any thread exists.
main ==
    /\ pc = "start"
    /\ \E mnemo_ok \in BOOLEAN, cfg_ok \in BOOLEAN, delivery \in Deliveries :
          LET loaded == IF MNEMONIC_AVAILABLE
                        THEN load_bip39_wordlist(MNEMONIC_AVAILABLE, mnemo_ok)
                        ELSE [ok |-> FALSE, wordlist |-> BIP39_WORDLIST]
              r      == send_telegram_message(TELEGRAM_ENABLED, delivery)
              menu   == main_reaches_menu(MNEMONIC_AVAILABLE, loaded.ok, cfg_ok)
          IN  /\ BIP39_WORDLIST' = loaded.wordlist
              /\ telegram' = IF menu /\ TELEGRAM_ENABLED THEN Posted(telegram, r)
                             ELSE telegram
              /\ pc' = IF menu /\ ~r.raised THEN "menu" ELSE "exit"
    /\ UNCHANGED <<batch, count, max_workers, slot, STATS, found_count, empty_count,
                   futures, finished, pre_finished, drained, hasil, empty_wallets,
                   io, progress, chk, writers, MNEMONIC_AVAILABLE, TELEGRAM_ENABLED,
                   random>>

\* line 567: requests.post of the start message returns or raises
scan_start_sent ==
    /\ pc = "post_start"
    /\ \E delivery \in Deliveries :
          LET r == send_telegram_message(TELEGRAM_ENABLED, delivery)
          IN  /\ telegram' = Posted(telegram, r)
              /\ pc' = IF r.raised THEN "exit" ELSE ThreadPoolExecutor_enter(max_workers)
    /\ UNCHANGED <<batch, count, max_workers, slot, STATS, found_count, empty_count,
                   futures, finished, pre_finished, drained, hasil, empty_wallets,
                   io, progress, chk, writers, Globals>>

\* one turn of menu_loop that starts a scan (choices 1-5 with a valid number)
menu_scan ==
    /\ pc = "menu"
    /\ \E ch \in MenuChoices, custom \in -1..MaxGenerated :
          LET n == MenuCount(ch, custom)
          IN  /\ n >= 1
              /\ STATS.total_generated + n <= MaxGenerated
              /\ BatchPrologue(n)
    /\ UNCHANGED <<chk, writers, Globals, telegram>>

\* choice 7
menu_exit ==
    /\ pc = "menu"
    /\ pc' = "exit"
    /\ UNCHANGED <<batch, count, max_workers, slot, STATS, found_count, empty_count,
                   futures, finished, pre_finished, drained, hasil, empty_wallets,
                   io, progress, chk, writers, Globals, telegram>>

\* a generate loop that submits an address once per batch
submits_Once(derived, address, seen) == derived /\ address \notin seen

\* lines 587-588: every wallet create_wallet_random returned is submitted;
\* seen, the addresses submitted before, is not looked at
submits(derived, address, seen) == derived

\* lines 585 and 380-389: a turn of the generate loop enters
\* create_wallet_random; generate_random_12word_phrase draws the phrase and
\* counts it (line 388).  The derivation and the submit come after, while
\* the pool threads run.
generate_slot ==
    /\ pc = "gen"
    /\ slot < count
    /\ LET phrase == generate_random_12word_phrase(BIP39_WORDLIST)
       IN  STATS' = IF phrase THEN [STATS EXCEPT !.total_generated = @ + 1] ELSE STATS
    /\ pc' = "derive"
    /\ UNCHANGED <<batch, count, max_workers, slot, found_count, empty_count, futures,
                   finished, pre_finished, drained, hasil, empty_wallets, io, progress,
                   chk, writers, Globals, telegram>>

\* lines 391-427 and 586-588: wallet_from_phrase derives the wallet or
\* returns None; a wallet is submitted to the pool, and the turn is over
submit_slot ==
    /\ pc = "derive"
    /\ \E derivation_ok \in BOOLEAN :
          LET phrase  == generate_random_12word_phrase(BIP39_WORDLIST)
              derived == phrase /\ wallet_from_phrase(MNEMONIC_AVAILABLE, derivation_ok)
          IN
          futures' = IF submits(derived, Address(batch, slot + 1),
                                {futures[t].address : t \in DOMAIN futures})
                     THEN DictSet(futures, slot + 1,
                                  [state |-> "queued", tmp |-> 0, result |-> NoResult,
                                   address |-> Address(batch, slot + 1)])
                     ELSE futures
    /\ slot' = slot + 1
    /\ pc' = "gen"
    /\ UNCHANGED <<batch, count, max_workers, STATS, found_count, empty_count, finished,
                   pre_finished, drained, hasil, empty_wallets, io, progress, chk,
                   writers, Globals, telegram>>

\* a loop that starts draining as soon as one slot has been handled
as_completed_Streaming ==
    /\ pc = "gen"
    /\ slot >= 1
    /\ pc' = "drain"
    /\ pre_finished' = Done
    /\ UNCHANGED <<batch, count, max_workers, slot, STATS, found_count, empty_count,
                   futures, finished, drained, hasil, empty_wallets, io, progress,
                   chk, writers, Globals, telegram>>

\* line 590: as_completed is called once the generate loop is over
as_completed ==
    /\ pc = "gen"
    /\ slot = count
    /\ pc' = "drain"
    /\ pre_finished' = Done
    /\ UNCHANGED <<batch, count, max_workers, slot, STATS, found_count, empty_count,
                   futures, finished, drained, hasil, empty_wallets, io, progress,
                   chk, writers, Globals, telegram>>

\* a pool that starts a task whenever one is queued
ThreadPoolExecutor_Unbounded(running, workers) == TRUE

\* line 582: ThreadPoolExecutor(max_workers) runs its tasks on at most
\* max_workers threads, one task per thread at a time; a queued task starts
\* when fewer than max_workers are being executed
ThreadPoolExecutor(running, workers) == running < workers

\* a pool thread that holds no task takes the oldest queued one (the work
\* queue of the pool is first in, first out)
worker_get(t) ==
    /\ t \in Queued
    /\ \A u \in Queued : t <= u
    /\ ThreadPoolExecutor(Cardinality(Running), max_workers)
    /\ futures' = [futures EXCEPT ![t].state = "taken"]
    /\ UNCHANGED <<pc, batch, count, max_workers, slot, STATS, found_count, empty_count,
                   finished, pre_finished, drained, hasil, empty_wallets, io, progress,
                   chk, writers, Globals, telegram>>

\* the thread runs check_single_wallet on its task up to the load of
\* STATS["total_checked"] (lines 488-494, BINARY_SUBSCR); which of the
\* threads holding a task gets there first is up to the scheduler
worker_load(t) ==
    /\ t \in DOMAIN futures
    /\ futures[t].state = "taken"
    /\ futures' = [futures EXCEPT ![t].state = "loaded", ![t].tmp = STATS.total_checked]
    /\ UNCHANGED <<pc, batch, count, max_workers, slot, STATS, found_count, empty_count,
                   finished, pre_finished, drained, hasil, empty_wallets, io, progress,
                   chk, writers, Globals, telegram>>

\* line 494, STORE_SUBSCR: the loaded value plus one is stored back
worker_store(t) ==
    /\ t \in DOMAIN futures
    /\ futures[t].state = "loaded"
    /\ STATS' = [STATS EXCEPT !.total_checked = futures[t].tmp + 1]
    /\ futures' = [futures EXCEPT ![t].state = "stored"]
    /\ UNCHANGED <<pc, batch, count, max_workers, slot, found_count, empty_count,
                   finished, pre_finished, drained, hasil, empty_wallets, io, progress,
                   chk, writers, Globals, telegram>>

\* lines 496-542: the source calls and the return; the future is finished
worker_return(t) ==
    /\ t \in DOMAIN futures
    /\ futures[t].state = "stored"
    /\ \E w \in BatchWorlds :
          futures' = [futures EXCEPT
                        ![t].state = "finished",
                        ![t].result = check_single_wallet(BatchClients, w.debank, w.answers)]
    /\ finished' = Append(finished, t)
    /\ UNCHANGED <<pc, batch, count, max_workers, slot, STATS, found_count, empty_count,
                   pre_finished, drained, hasil, empty_wallets, io, progress, chk,
                   writers, Globals, telegram>>

\* the future the drain loop gets next from as_completed: those finished
\* before the call in any order, then the others as they finish
NextDrained(t) ==
    /\ t \in Done \ DrainedSet
    /\ IF pre_finished \ DrainedSet # {}
       THEN t \in pre_finished
       ELSE \A k \in 1..Len(finished) :
               finished[k] \notin DrainedSet => \E j \in 1..k : finished[j] = t

\* lines 593-627 and 644-645: what the drain loop does with the result r of
\* the future of slot t, when nothing runs between its statements
drain_body(t, r, read_ok, outcome) ==
    IF r.raised
    THEN /\ STATS' = [STATS EXCEPT !.errors = @ + 1]
         /\ UNCHANGED <<found_count, empty_count, hasil, empty_wallets>>
    ELSE IF classify(r) = "FOUND"
    THEN /\ found_count' = found_count + 1
         /\ STATS' = [STATS EXCEPT !.wallets_found = found_count + 1]
         /\ hasil' = append_to_results(hasil, Rec(batch, t, TRUE), read_ok, outcome)
         /\ UNCHANGED <<empty_count, empty_wallets>>
    ELSE /\ empty_count' = empty_count + 1
         /\ STATS' = [STATS EXCEPT !.empty_wallets = empty_count + 1]
         /\ empty_wallets' = append_to_empty_wallets(empty_wallets, Rec(batch, t, FALSE),
                                                     read_ok, outcome)
         /\ UNCHANGED <<found_count, hasil>>

\* the future whose turn of the drain loop is in progress, and whether its
\* result is a found wallet
Current == drained[Len(drained)]

CurrentFound == classify(futures[Current].result) = "FOUND"

\* where the main thread goes on after the append of a turn: to the
\* requests.post of the found message (line 615) or to the progress bar
after_append == IF CurrentFound /\ TELEGRAM_ENABLED THEN "post_found" ELSE "progress"

\* lines 591-597, 619, 644-645: as_completed hands out the next future and
\* future.result() returns or raises; an exception is counted and ends the
\* turn, a result adds one to found_count or to empty_count
drain(t) ==
    /\ pc = "drain"
    /\ NextDrained(t)
    /\ drained' = Append(drained, t)
    /\ LET r == futures[t].result
       IN  IF r.raised
           THEN /\ STATS' = [STATS EXCEPT !.errors = @ + 1]
                /\ pc' = "drain"
                /\ UNCHANGED <<found_count, empty_count>>
           ELSE /\ found_count' = found_count + (IF classify(r) = "FOUND" THEN 1 ELSE 0)
                /\ empty_count' = empty_count + (IF classify(r) = "FOUND" THEN 0 ELSE 1)
                /\ pc' = "stats"
                /\ UNCHANGED STATS
    /\ UNCHANGED <<batch, count, max_workers, slot, futures, finished, pre_finished,
                   hasil, empty_wallets, io, progress, chk, writers, Globals, telegram>>

\* lines 598 and 620: the count is copied to STATS
stats_write ==
    /\ pc = "stats"
    /\ STATS' = IF CurrentFound THEN [STATS EXCEPT !.wallets_found = found_count]
                ELSE [STATS EXCEPT !.empty_wallets = empty_count]
    /\ pc' = "load"
    /\ UNCHANGED <<batch, count, max_workers, slot, found_count, empty_count, futures,
                   finished, pre_finished, drained, hasil, empty_wallets, io, progress,
                   chk, writers, Globals, telegram>>

\* lines 273-274 and 279-280: append_to_results or append_to_empty_wallets
\* loads its file and appends the record to the list it got
append_load ==
    /\ pc = "load"
    /\ \E read_ok \in BOOLEAN :
          LET file == IF CurrentFound THEN hasil ELSE empty_wallets
              fail == IF read_ok THEN 0 ELSE 1
          IN  /\ io.faults + fail <= MaxFaults
              /\ io' = [io EXCEPT !.faults = @ + fail,
                                  !.existing = Append(load_json_file(file, read_ok),
                                                      Rec(batch, Current, CurrentFound))]
    /\ pc' = "open"
    /\ UNCHANGED <<batch, count, max_workers, slot, STATS, found_count, empty_count,
                   futures, finished, pre_finished, drained, hasil, empty_wallets,
                   progress, chk, writers, Globals, telegram>>

\* line 266: save_json_file opens the file for writing, which truncates it;
\* when the open raises, the exception is printed and the append is over
append_open ==
    /\ pc = "open"
    /\ \E open_ok \in BOOLEAN :
          IF open_ok
          THEN /\ IF CurrentFound
                  THEN hasil' = Truncated /\ UNCHANGED empty_wallets
                  ELSE empty_wallets' = Truncated /\ UNCHANGED hasil
               /\ pc' = "dump"
               /\ UNCHANGED io
          ELSE /\ io.faults + 1 <= MaxFaults
               /\ io' = [faults   |-> io.faults + 1,
                         unsaved  |-> io.unsaved \cup {Current},
                         existing |-> <<>>]
               /\ pc' = after_append
               /\ UNCHANGED <<hasil, empty_wallets>>
    /\ UNCHANGED <<batch, count, max_workers, slot, STATS, found_count, empty_count,
                   futures, finished, pre_finished, drained, progress, chk, writers,
                   Globals, telegram>>

\* line 267 and the close of the file: json.dump writes the list; when it
\* raises, the exception is printed and the file stays without its JSON
append_dump ==
    /\ pc = "dump"
    /\ \E dump_ok \in BOOLEAN :
          IF dump_ok
          THEN /\ IF CurrentFound
                  THEN hasil' = Dumped(io.existing) /\ UNCHANGED empty_wallets
                  ELSE empty_wallets' = Dumped(io.existing) /\ UNCHANGED hasil
               /\ io' = [io EXCEPT !.existing = <<>>]
          ELSE /\ io.faults + 1 <= MaxFaults
               /\ io' = [faults   |-> io.faults + 1,
                         unsaved  |-> io.unsaved \cup {Current},
                         existing |-> <<>>]
               /\ UNCHANGED <<hasil, empty_wallets>>
    /\ pc' = after_append
    /\ UNCHANGED <<batch, count, max_workers, slot, STATS, found_count, empty_count,
                   futures, finished, pre_finished, drained, progress, chk, writers,
                   Globals, telegram>>

\* line 615: requests.post of the found message returns or raises; an
\* exception is counted at line 645 and ends the turn
wallet_found_sent ==
    /\ pc = "post_found"
    /\ \E delivery \in Deliveries :
          LET r == send_telegram_message(TELEGRAM_ENABLED, delivery)
          IN  /\ telegram' = Posted(telegram, r)
              /\ STATS' = IF r.raised THEN [STATS EXCEPT !.errors = @ + 1] ELSE STATS
              /\ pc' = IF r.raised THEN "drain" ELSE "progress"
    /\ UNCHANGED <<batch, count, max_workers, slot, found_count, empty_count, futures,
                   finished, pre_finished, drained, hasil, empty_wallets, io, progress,
                   chk, writers, Globals>>

\* lines 629-642: the rest of a turn of the drain loop: the progress bar
\* reads total_checked, and when Telegram is enabled and 60 seconds have
\* passed since the last summary (due) the empty count is posted if it is
\* above 0
drain_tail(empties, due) ==
    /\ progress' = STATS.total_checked
    /\ pc' = IF TELEGRAM_ENABLED /\ due /\ empties > 0 THEN "post_empty" ELSE "drain"

\* line 630 and after: the main thread reaches the progress bar; the pool
\* threads may have run since the turn wrote its counts
print_progress_bar ==
    /\ pc = "progress"
    /\ \E due \in BOOLEAN :
          /\ due => TELEGRAM_ENABLED
          /\ drain_tail(empty_count, due)
    /\ UNCHANGED <<batch, count, max_workers, slot, STATS, found_count, empty_count,
                   futures, finished, pre_finished, drained, hasil, empty_wallets, io,
                   chk, writers, Globals, telegram>>

\* line 641: requests.post of the summary of the empty count returns or
\* raises; an exception is counted at line 645
empty_batch_sent ==
    /\ pc = "post_empty"
    /\ \E delivery \in Deliveries :
          LET r == send_telegram_message(TELEGRAM_ENABLED, delivery)
          IN  /\ telegram' = Posted(telegram, r)
              /\ STATS' = IF r.raised THEN [STATS EXCEPT !.errors = @ + 1] ELSE STATS
    /\ pc' = "drain"
    /\ UNCHANGED <<batch, count, max_workers, slot, found_count, empty_count, futures,
                   finished, pre_finished, drained, hasil, empty_wallets, io, progress,
                   chk, writers, Globals>>

\* lines 647-663: the pool is shut down and the final report printed; with
\* Telegram enabled the completion message is posted (line 663), else
\* menu_loop shows the menu again
batch_end ==
    /\ pc = "drain"
    /\ DOMAIN futures = DrainedSet
    /\ pc' = IF TELEGRAM_ENABLED THEN "post_complete" ELSE "menu"
    /\ UNCHANGED <<batch, count, max_workers, slot, STATS, found_count, empty_count,
                   futures, finished, pre_finished, drained, hasil, empty_wallets,
                   io, progress, chk, writers, Globals, telegram>>

\* line 663: requests.post of the completion message returns or raises
scan_complete_sent ==
    /\ pc = "post_complete"
    /\ \E delivery \in Deliveries :
          LET r == send_telegram_message(TELEGRAM_ENABLED, delivery)
          IN  /\ telegram' = Posted(telegram, r)
              /\ pc' = IF r.raised THEN "exit" ELSE "menu"
    /\ UNCHANGED <<batch, count, max_workers, slot, STATS, found_count, empty_count,
                   futures, finished, pre_finished, drained, hasil, empty_wallets,
                   io, progress, chk, writers, Globals>>

NoWriters == [prior |-> 0, priors |-> <<>>, exists |-> FALSE, file |-> <<>>, calls |-> <<>>]

IdleChk == [state |-> "idle", clients |-> <<>>, debank |-> [status |-> "no_key", items |-> <<>>],
            answers |-> <<>>, result |-> NoResult]

Init ==
    /\ pc = "start"
    /\ MNEMONIC_AVAILABLE \in BOOLEAN
    /\ BIP39_WORDLIST = "None"
    /\ TELEGRAM_ENABLED \in BOOLEAN
    /\ telegram = NoTelegram
    /\ random \in {"fresh", "repeat"}
    /\ batch = 0
    /\ count = 0
    /\ max_workers \in {Workers(c) : c \in WorkerConfigs}
    /\ slot = 0
    /\ STATS = ZeroStats
    /\ found_count = 0
    /\ empty_count = 0
    /\ futures = NoFutures
    /\ finished = <<>>
    /\ pre_finished = {}
    /\ drained = <<>>
    /\ hasil = NoFile
    /\ empty_wallets = NoFile
    /\ io = [faults |-> 0, unsaved |-> {}, existing |-> <<>>]
    /\ progress = 0
    /\ chk = IdleChk
    /\ writers = NoWriters

Next ==
    \/ main
    \/ scan_start_sent
    \/ wallet_found_sent
    \/ empty_batch_sent
    \/ scan_complete_sent
    \/ menu_scan
    \/ menu_exit
    \/ generate_slot
    \/ submit_slot
    \/ as_completed
    \/ \E t \in 1..MaxGenerated : worker_get(t)
    \/ \E t \in 1..MaxGenerated : worker_load(t)
    \/ \E t \in 1..MaxGenerated : worker_store(t)
    \/ \E t \in 1..MaxGenerated : worker_return(t)
    \/ \E t \in 1..MaxGenerated : drain(t)
    \/ stats_write
    \/ append_load
    \/ append_open
    \/ append_dump
    \/ print_progress_bar
    \/ batch_end

Spec == Init /\ [][Next]_vars

\* a step of the program that waits for no input of the user: of main, of
\* scan_wallets_batch or of a pool thread
ProgramStep ==
    \/ main
    \/ scan_start_sent
    \/ generate_slot
    \/ submit_slot
    \/ as_completed
    \/ \E t \in 1..MaxGenerated :
          worker_get(t) \/ worker_load(t) \/ worker_store(t) \/ worker_return(t)
    \/ \E t \in 1..MaxGenerated : drain(t)
    \/ stats_write \/ append_load \/ append_open \/ append_dump
    \/ print_progress_bar
    \/ wallet_found_sent
    \/ empty_batch_sent
    \/ batch_end
    \/ scan_complete_sent

\* The scheduler runs a thread that can run, and every network call returns
\* or times out (timeout=10 at line 163, DEBANK_TIMEOUT at line 440): the
\* program does not stop while one of its threads has a step to take.  The
\* user's choices at the menu are under no such condition.
Fairness == WF_vars(ProgramStep)

SpecFair == Init /\ [][Next]_vars /\ Fairness

----------------------------------------------------------------------------
(* One check on its own: check_single_wallet called once with every answer *)
(* the sources can give, and its result drained.                           *)

ReadyChk(c, d, a) ==
    [state |-> "ready", clients |-> c, debank |-> d, answers |-> a, result |-> NoResult]

InitCheck ==
    /\ pc = "drain"
    /\ MNEMONIC_AVAILABLE = TRUE
    /\ BIP39_WORDLIST = "words"
    /\ TELEGRAM_ENABLED = FALSE
    /\ telegram = NoTelegram
    /\ random = "fresh"
    /\ batch = 1
    /\ count = 1
    /\ max_workers = DEFAULT_WORKERS
    /\ slot = 1
    /\ STATS = [ZeroStats EXCEPT !.total_generated = 1]
    /\ found_count = 0
    /\ empty_count = 0
    /\ futures = NoFutures
    /\ finished = <<>>
    /\ pre_finished = {}
    /\ drained = <<>>
    /\ hasil = NoFile
    /\ empty_wallets = NoFile
    /\ io = [faults |-> 0, unsaved |-> {}, existing |-> <<>>]
    /\ progress = 0
    /\ \E c \in ClientConfigs, d \in DebankAnswers :
          \E a \in [1..Len(c) -> ChainAnswers] : chk = ReadyChk(c, d, a)
    /\ writers = NoWriters

\* lines 488-542 run by one thread
check_call ==
    /\ chk.state = "ready"
    /\ STATS' = [STATS EXCEPT !.total_checked = @ + 1]
    /\ chk' = [chk EXCEPT !.state = "returned",
                          !.result = check_single_wallet(chk.clients, chk.debank, chk.answers)]
    /\ UNCHANGED <<pc, batch, count, max_workers, slot, found_count, empty_count,
                   futures, finished, pre_finished, drained, hasil, empty_wallets, io,
                   progress, writers, Globals, telegram>>

\* lines 591-646 on that result, the stores working
check_drain ==
    /\ chk.state = "returned"
    /\ chk' = [chk EXCEPT !.state = "drained"]
    /\ drain_body(1, chk.result, TRUE, "ok")
    /\ progress' = IF chk.result.raised THEN progress ELSE STATS.total_checked
    /\ UNCHANGED <<pc, batch, count, max_workers, slot, futures, finished, pre_finished,
                   drained, io, writers, Globals, telegram>>

NextCheck == check_call \/ check_drain

SpecCheck == InitCheck /\ [][NextCheck]_vars

----------------------------------------------------------------------------
(* append_to_results called by several threads at once on one store.  A    *)
(* call is the system calls of lines 245-249 and 266-267: stat, open with  *)
(* fstat, read until a read gives no bytes, then open for writing, which   *)
(* truncates, and one write when the file is closed.  The interpreter's    *)
(* lock is released at each of them, so the calls of the other threads run *)
(* between them, and what a load reads can be the first bytes of one text  *)
(* and the later bytes of another.  The store is kept as its bytes.        *)

PriorRecs(k) == [j \in 1..k |-> Rec(0, j, TRUE)]

\* line 267: the lengths in bytes of the text json.dump(..., indent=2) gives
\* a found record, with its indentation and separator: a phrase of twelve
\* words of three letters, one of twelve words of eight letters
RecordBytes == {342, 402}

\* the length of the text of a record of the store: that of the record the
\* store started with, or of the record given to the call
TextBytes(r) == IF r.batch = 0 THEN writers.priors[r.slot] ELSE writers.calls[r.slot].bytes

Min(a, b) == IF a < b THEN a ELSE b

\* the characters JSON is written with
NL == 10
SP == 32
QUOTE == 34
COMMA == 44
DOT == 46
COLON == 58
BACKSLASH == 92
LBRACKET == 91
RBRACKET == 93
LBRACE == 123
RBRACE == 125
DigitChars == 48..57
WhiteSpace == {9, 10, 13, 32}

\* lines 496-503: the keys of a result, as their characters
Key_address     == <<97, 100, 100, 114, 101, 115, 115>>
Key_private_key == <<112, 114, 105, 118, 97, 116, 101, 95, 107, 101, 121>>
Key_phrase      == <<112, 104, 114, 97, 115, 101>>
Key_balance_usd == <<98, 97, 108, 97, 110, 99, 101, 95, 117, 115, 100>>
Key_coins       == <<99, 111, 105, 110, 115>>
Key_chains      == <<99, 104, 97, 105, 110, 115>>
Key_nonce       == <<110, 111, 110, 99, 101>>
Key_found_at    == <<102, 111, 117, 110, 100, 95, 97, 116>>

\* JSON values: a string and a number are their characters, an object is
\* its members in order, a list its elements
Str(s) == [t |-> "str", s |-> s, m |-> <<>>]

Num(s) == [t |-> "num", s |-> s, m |-> <<>>]

Obj(m) == [t |-> "obj", s |-> <<>>, m |-> m]

Arr(m) == [t |-> "arr", s |-> <<>>, m |-> m]

Member(k, v) == [k |-> k, v |-> v]

\* the len characters of a string of record r: no other string and no
\* other record has them, and none is a quote, a backslash or a control
\* character
OwnChars(r, field, len) ==
    [j \in 1..len |-> 1000000 * (1 + r.batch) + 10000 * r.slot + 1000 * field + j]

\* the phrase of a record: its text without the phrase is 295 bytes
PhraseChars(r) == TextBytes(r) - 295

\* lines 495-504 and 534: the result a call is given, found for its nonce
\* alone: the address of 42 characters, the key of 64, the phrase, no
\* balance, no coins, no chains, a nonce of one digit and the time of 26
\* characters
ResultValue(r) ==
    Obj(<<Member(Key_address, Str(OwnChars(r, 1, 42))),
          Member(Key_private_key, Str(OwnChars(r, 2, 64))),
          Member(Key_phrase, Str(OwnChars(r, 3, PhraseChars(r)))),
          Member(Key_balance_usd, Num(<<48, DOT, 48>>)),
          Member(Key_coins, Obj(<<>>)),
          Member(Key_chains, Arr(<<>>)),
          Member(Key_nonce, Num(<<53>>)),
          Member(Key_found_at, Str(OwnChars(r, 4, 26)))>>)

\* an element of a loaded list is a record of the store or, when the text
\* made something else of it, the JSON value itself
IsRec(e) == "batch" \in DOMAIN e

ValueOf(e) == IF IsRec(e) THEN ResultValue(e) ELSE e

Indent(level) == [i \in 1..(2 * level) |-> SP]

\* line 267: the text json.dump(..., indent=2, ensure_ascii=False) writes
\* for a value at a nesting level; no character of a string needs an escape
RECURSIVE dumps(_, _)
RECURSIVE DumpMembers(_, _)
RECURSIVE DumpElems(_, _)
dumps(v, level) ==
    CASE v.t = "str" -> <<QUOTE>> \o v.s \o <<QUOTE>>
      [] v.t = "num" -> v.s
      [] v.t = "obj" -> IF v.m = <<>> THEN <<LBRACE, RBRACE>>
                        ELSE <<LBRACE, NL>> \o DumpMembers(v.m, level + 1)
                             \o <<NL>> \o Indent(level) \o <<RBRACE>>
      [] v.t = "arr" -> IF v.m = <<>> THEN <<LBRACKET, RBRACKET>>
                        ELSE <<LBRACKET, NL>> \o DumpElems(v.m, level + 1)
                             \o <<NL>> \o Indent(level) \o <<RBRACKET>>

DumpMembers(m, level) ==
    Indent(level) \o <<QUOTE>> \o m[1].k \o <<QUOTE, COLON, SP>> \o dumps(m[1].v, level)
    \o (IF Len(m) = 1 THEN <<>> ELSE <<COMMA, NL>> \o DumpMembers(Tail(m), level))

DumpElems(m, level) ==
    Indent(level) \o dumps(m[1], level)
    \o (IF Len(m) = 1 THEN <<>> ELSE <<COMMA, NL>> \o DumpElems(Tail(m), level))

\* The text of the file is a sequence of runs of bytes: bytes lo..hi of a
\* unit, and a unit is the opening of the list, the separator of two
\* elements, the end of the list, or the text of an element with its
\* indentation.
HeadMark == [t |-> "head", s |-> <<>>, m |-> <<>>]

CommaMark == [t |-> "comma", s |-> <<>>, m |-> <<>>]

CloseMark == [t |-> "close", s |-> <<>>, m |-> <<>>]

Marks == {HeadMark, CommaMark, CloseMark}

UnitChars(e) ==
    CASE e = HeadMark  -> <<LBRACKET, NL>>
      [] e = CommaMark -> <<COMMA, NL>>
      [] e = CloseMark -> <<NL, RBRACKET>>
      [] OTHER         -> Indent(1) \o dumps(ValueOf(e), 1)

UnitLen(e) ==
    IF e \in Marks THEN 2
    ELSE IF IsRec(e) THEN TextBytes(e) - 2
    ELSE Len(UnitChars(e))

Run(e, lo, hi) == [e |-> e, lo |-> lo, hi |-> hi]

Whole(e) == Run(e, 1, UnitLen(e))

RunLen(run) == run.hi - run.lo + 1

RECURSIVE TextLen(_)
TextLen(text) == IF text = <<>> THEN 0 ELSE RunLen(text[1]) + TextLen(Tail(text))

RECURSIVE RunChars(_)
RunChars(text) ==
    IF text = <<>> THEN <<>>
    ELSE SubSeq(UnitChars(text[1].e), text[1].lo, text[1].hi) \o RunChars(Tail(text))

\* the bytes of text from offset from up to, not including, offset to
Slice(text, from, to) ==
    LET start(i) == TextLen(SubSeq(text, 1, i - 1))
        part(i)  == Run(text[i].e,
                        text[i].lo + Max(0, from - start(i)),
                        Min(text[i].hi, text[i].lo + (to - start(i)) - 1))
        NonEmpty(run) == run.lo <= run.hi
    IN  SelectSeq([i \in 1..Len(text) |-> part(i)], NonEmpty)

\* text a followed by text b; two runs that continue each other are one
Join(a, b) ==
    IF a = <<>> THEN b
    ELSE IF b = <<>> THEN a
    ELSE LET x == a[Len(a)]
             y == b[1]
         IN  IF x.e = y.e /\ x.hi + 1 = y.lo
             THEN SubSeq(a, 1, Len(a) - 1) \o <<Run(x.e, x.lo, y.hi)>> \o Tail(b)
             ELSE a \o b

\* the text of a list whose elements have texts of lens bytes, each with
\* its indentation and separator; the empty list is the two brackets
StoreText(data, lens) ==
    LET unit(i) == IF i % 2 = 1 THEN Run(data[(i + 1) \div 2], 1, lens[(i + 1) \div 2] - 2)
                   ELSE Run(CommaMark, 1, 2)
    IN  IF data = <<>> THEN <<Run(HeadMark, 1, 1), Run(CloseMark, 2, 2)>>
        ELSE <<Run(HeadMark, 1, 2)>> \o [i \in 1..(2 * Len(data) - 1) |-> unit(i)]
             \o <<Run(CloseMark, 1, 2)>>

\* line 267: the text json.dump(data, f, indent=2) writes
json_dump(data) == StoreText(data, [j \in 1..Len(data) |-> UnitLen(data[j]) + 2])

\* line 249, json.load: the value a text is, read character by character.
\* A reading gives ok, the value, the position p after it and the index q
\* of the next quote of the text not read yet.
Ch(t, p) == IF p >= 1 /\ p <= Len(t) THEN t[p] ELSE 0

Fail == [ok |-> FALSE, v |-> Arr(<<>>), p |-> 0, q |-> 0]

Got(v, p, q) == [ok |-> TRUE, v |-> v, p |-> p, q |-> q]

\* the first position from p on that holds no white space; Len(t) + 1 when
\* there is none
SkipWhite(t, p) ==
    CHOOSE i \in p..(Len(t) + 1) :
        /\ Ch(t, i) \notin WhiteSpace
        /\ \A x \in p..(i - 1) : t[x] \in WhiteSpace

\* a string opens at the quote at p, the q-th of the text, and ends at the
\* next quote; it holds no control character and no escape
scanstring(t, qs, p, q) ==
    IF q + 1 > Len(qs) THEN Fail
    ELSE LET e == qs[q + 1]
         IN  IF \A x \in (p + 1)..(e - 1) : t[x] >= SP /\ t[x] # BACKSLASH
             THEN Got(Str(SubSeq(t, p + 1, e - 1)), e + 1, q + 2)
             ELSE Fail

\* the last of the digits that start at p
DigitsEnd(t, p) ==
    CHOOSE e \in p..Len(t) :
        /\ \A x \in p..e : t[x] \in DigitChars
        /\ Ch(t, e + 1) \notin DigitChars

\* the digits of a fraction as float.__repr__ gives them back: without the
\* zeros at their end, but one digit at least
Trimmed(d) ==
    LET k == CHOOSE k \in 1..Len(d) :
                 /\ \A x \in (k + 1)..Len(d) : d[x] = 48
                 /\ k = 1 \/ d[k] # 48
    IN  SubSeq(d, 1, k)

\* a number starts with the digit at p: 0 or digits with no leading 0, then
\* a point and digits if both are there.  No sign and no exponent: a text
\* of the store has no sign outside its strings, and the letters outside a
\* string are those of a key, followed by a letter or a quote.
match_number(t, p, q) ==
    LET int  == IF t[p] = 48 THEN p ELSE DigitsEnd(t, p)
        frac == Ch(t, int + 1) = DOT /\ Ch(t, int + 2) \in DigitChars
        end  == DigitsEnd(t, int + 2)
    IN  IF frac
        THEN Got(Num(SubSeq(t, p, int) \o <<DOT>> \o Trimmed(SubSeq(t, int + 2, end))),
                 end + 1, q)
        ELSE Got(Num(SubSeq(t, p, int)), int + 1, q)

\* a dict of the pairs read: a key read again keeps its place and takes the
\* later value
Dedupe(m) ==
    LET First(i) == \A j \in 1..(i - 1) : m[j].k # m[i].k
        Last(i)  == CHOOSE j \in i..Len(m) :
                        /\ m[j].k = m[i].k
                        /\ \A x \in (j + 1)..Len(m) : m[x].k # m[i].k
        kept     == SelectSeq([i \in 1..Len(m) |-> i], First)
    IN  [x \in 1..Len(kept) |-> Member(m[kept[x]].k, m[Last(kept[x])].v)]

RECURSIVE scan_once(_, _, _, _)
RECURSIVE JSONObject(_, _, _, _, _)
RECURSIVE JSONArray(_, _, _, _, _)
\* the value that starts at or after p
scan_once(t, qs, p, q) ==
    LET i == SkipWhite(t, p)
        c == Ch(t, i)
    IN  CASE c = QUOTE       -> scanstring(t, qs, i, q)
          [] c \in DigitChars -> match_number(t, i, q)
          [] c = LBRACE      ->
                LET j == SkipWhite(t, i + 1)
                IN  IF Ch(t, j) = RBRACE THEN Got(Obj(<<>>), j + 1, q)
                    ELSE JSONObject(t, qs, j, q, <<>>)
          [] c = LBRACKET    ->
                LET j == SkipWhite(t, i + 1)
                IN  IF Ch(t, j) = RBRACKET THEN Got(Arr(<<>>), j + 1, q)
                    ELSE JSONArray(t, qs, j, q, <<>>)
          [] OTHER           -> Fail

\* the members of an object from the key at p on, after the members acc
JSONObject(t, qs, p, q, acc) ==
    IF Ch(t, p) # QUOTE THEN Fail
    ELSE LET key == scanstring(t, qs, p, q)
         IN  IF ~key.ok THEN Fail
             ELSE LET i == SkipWhite(t, key.p)
                  IN  IF Ch(t, i) # COLON THEN Fail
                      ELSE LET val == scan_once(t, qs, i + 1, key.q)
                           IN  IF ~val.ok THEN Fail
                               ELSE LET j   == SkipWhite(t, val.p)
                                        all == Append(acc, Member(key.v.s, val.v))
                                    IN  CASE Ch(t, j) = RBRACE ->
                                                 Got(Obj(Dedupe(all)), j + 1, val.q)
                                          [] Ch(t, j) = COMMA  ->
                                                 JSONObject(t, qs, SkipWhite(t, j + 1),
                                                            val.q, all)
                                          [] OTHER -> Fail

\* the elements of a list from the value at p on, after the elements acc
JSONArray(t, qs, p, q, acc) ==
    LET val == scan_once(t, qs, p, q)
    IN  IF ~val.ok THEN Fail
        ELSE LET j   == SkipWhite(t, val.p)
                 all == Append(acc, val.v)
             IN  CASE Ch(t, j) = RBRACKET -> Got(Arr(all), j + 1, val.q)
                   [] Ch(t, j) = COMMA    -> JSONArray(t, qs, j + 1, val.q, all)
                   [] OTHER -> Fail

\* json.loads: one value, white space around it and nothing else
json_loads(t) ==
    LET IsQuote(i) == t[i] = QUOTE
        qs  == SelectSeq([i \in 1..Len(t) |-> i], IsQuote)
        val == scan_once(t, qs, 1, 1)
    IN  IF val.ok /\ SkipWhite(t, val.p) = Len(t) + 1 THEN val ELSE Fail

\* the records the store started with and those given to the calls
KnownRecs ==
    {Rec(0, j, TRUE) : j \in 1..writers.prior}
        \cup {Rec(batch, w, TRUE) : w \in DOMAIN writers.calls}

\* a value read that is a record of the store, as that record
Canon(v) ==
    IF \E r \in KnownRecs : ResultValue(r) = v
    THEN CHOOSE r \in KnownRecs : ResultValue(r) = v
    ELSE v

AllWhite(text) ==
    \A i \in 1..Len(text) :
        LET chars == SubSeq(UnitChars(text[i].e), text[i].lo, text[i].hi)
        IN  \A x \in 1..Len(chars) : chars[x] \in WhiteSpace

\* line 249, json.load of the text read: whether it is JSON and a list, and
\* the list.  A text that is a list as json.dump writes it, whole units all
\* through, is that list if only white space follows it.  Any other text
\* is read character by character between the whole elements it starts and
\* ends with.
json_load(text) ==
    LET n        == Len(text)
        item(i)  == text[i].e \notin Marks /\ text[i] = Whole(text[i].e)
        comma(i) == text[i] = Whole(CommaMark)
        close(i) == text[i] = Whole(CloseMark)
        head     == n >= 1 /\ text[1] = Whole(HeadMark)
        List(c)  == /\ head /\ c >= 3 /\ c % 2 = 1 /\ close(c)
                    /\ \A i \in 2..(c - 1) : IF i % 2 = 0 THEN item(i) ELSE comma(i)
        Lists    == {c \in 1..n : List(c)}
        Starts(j) == /\ head /\ 2 * j + 1 <= n
                     /\ \A i \in 1..j : item(2 * i) /\ comma(2 * i + 1)
        J        == CHOOSE j \in 0..n : Starts(j) /\ ~Starts(j + 1)
        closed   == n >= 2 * J + 2 /\ close(n)
        Ends(m)  == /\ 2 * J + 2 * m + 2 <= n
                    /\ \A i \in 1..m : comma(n - 2 * i) /\ item(n - 2 * i + 1)
        M        == IF closed THEN CHOOSE m \in 0..n : Ends(m) /\ ~Ends(m + 1) ELSE 0
        middle   == SubSeq(text, 2 * J + 2, IF closed THEN n - 1 - 2 * M ELSE n)
        doc      == IF head
                    THEN json_loads(<<LBRACKET, NL>> \o RunChars(middle)
                                    \o (IF closed THEN <<NL, RBRACKET>> ELSE <<>>))
                    ELSE json_loads(RunChars(text))
        read     == [i \in 1..Len(doc.v.m) |-> Canon(doc.v.m[i])]
    IN  IF Lists # {}
        THEN LET c == CHOOSE c \in Lists : TRUE
             IN  IF AllWhite(SubSeq(text, c + 1, n))
                 THEN Dumped([i \in 1..((c - 1) \div 2) |-> text[2 * i].e])
                 ELSE Truncated
        ELSE IF ~head
        THEN IF doc.ok /\ doc.v.t = "arr" THEN Dumped(read) ELSE Truncated
        ELSE IF doc.ok /\ doc.v.t = "arr" /\ (read # <<>> \/ (J = 0 /\ M = 0))
        THEN Dumped([i \in 1..J |-> text[2 * i].e] \o read
                    \o [i \in 1..M |-> text[n - 2 * M + 2 * i - 1].e])
        ELSE Truncated

\* FileIO.readall under line 249: the buffer's size when the bytes read
\* have filled it
SMALLCHUNK == 8192

new_buffersize(currentsize) ==
    currentsize + Max(SMALLCHUNK,
                      IF currentsize > 65536 THEN currentsize \div 8 ELSE 256 + currentsize)

InitAppend ==
    /\ pc = "drain"
    /\ MNEMONIC_AVAILABLE = TRUE
    /\ BIP39_WORDLIST = "words"
    /\ TELEGRAM_ENABLED = FALSE
    /\ telegram = NoTelegram
    /\ random = "fresh"
    /\ batch = 1
    /\ count = 0
    /\ max_workers = DEFAULT_WORKERS
    /\ slot = 0
    /\ STATS = ZeroStats
    /\ found_count = 0
    /\ empty_count = 0
    /\ futures = NoFutures
    /\ finished = <<>>
    /\ pre_finished = {}
    /\ drained = <<>>
    /\ \E k \in 0..MaxPrior, n \in 1..MaxWriters :
          \E old \in [1..k -> RecordBytes], len \in [1..n -> RecordBytes] :
             /\ writers = [prior  |-> k,
                           priors |-> old,
                           exists |-> k > 0,
                           file   |-> IF k = 0 THEN <<>> ELSE StoreText(PriorRecs(k), old),
                           calls  |-> [w \in 1..n |->
                                          [at |-> "stat", existing |-> <<>>,
                                           bytes |-> len[w], buf |-> <<>>, bufsize |-> 0]]]
             /\ hasil = IF k = 0 THEN NoFile ELSE Dumped(PriorRecs(k))
    /\ empty_wallets = NoFile
    /\ io = [faults |-> 0, unsaved |-> {}, existing |-> <<>>]
    /\ progress = 0
    /\ chk = IdleChk

AppendIdle == UNCHANGED <<pc, batch, count, max_workers, slot, STATS, found_count,
                          empty_count, futures, finished, pre_finished, drained,
                          empty_wallets, io, progress, chk, Globals, telegram>>

\* lines 245-246, os.path.exists: without the file the load is [], and
\* line 274 appends to it
writer_stat(w) ==
    /\ w \in DOMAIN writers.calls
    /\ writers.calls[w].at = "stat"
    /\ writers' = IF writers.exists
                  THEN [writers EXCEPT !.calls[w].at = "fstat"]
                  ELSE [writers EXCEPT !.calls[w].at = "open",
                                       !.calls[w].existing = <<Rec(batch, w, TRUE)>>]
    /\ UNCHANGED hasil
    /\ AppendIdle

\* lines 248-249, open and the fstat of f.read(): the buffer is one byte
\* more than the file holds now, or SMALLCHUNK for a file of no bytes
writer_fstat(w) ==
    /\ w \in DOMAIN writers.calls
    /\ writers.calls[w].at = "fstat"
    /\ LET size == TextLen(writers.file)
       IN  writers' = [writers EXCEPT
                         !.calls[w].at = "read",
                         !.calls[w].bufsize = IF size > 0 THEN size + 1 ELSE SMALLCHUNK]
    /\ UNCHANGED hasil
    /\ AppendIdle

\* line 249, one read of f.read(): the bytes the file holds now behind
\* those read so far, as many as the buffer still takes.  A read that gives
\* no bytes ends the reading: json.load makes the list of the text, [] if
\* it is none (lines 252 and 256-261), and line 274 appends the record.
writer_read(w) ==
    /\ w \in DOMAIN writers.calls
    /\ writers.calls[w].at = "read"
    /\ LET call  == writers.calls[w]
           sofar == TextLen(call.buf)
           size  == IF sofar >= call.bufsize THEN new_buffersize(sofar) ELSE call.bufsize
           bytes == Slice(writers.file, sofar, size)
       IN  writers' =
             IF bytes = <<>>
             THEN [writers EXCEPT
                     !.calls[w].at = "open",
                     !.calls[w].buf = <<>>,
                     !.calls[w].bufsize = 0,
                     !.calls[w].existing =
                         Append(load_json_file(json_load(call.buf), TRUE),
                                Rec(batch, w, TRUE))]
             ELSE [writers EXCEPT
                     !.calls[w].buf = Join(call.buf, bytes),
                     !.calls[w].bufsize = size]
    /\ UNCHANGED hasil
    /\ AppendIdle

\* line 266: the file is there and cut to no bytes
writer_open(w) ==
    /\ w \in DOMAIN writers.calls
    /\ writers.calls[w].at = "open"
    /\ writers' = [writers EXCEPT !.calls[w].at = "dump", !.exists = TRUE, !.file = <<>>]
    /\ hasil' = Truncated
    /\ AppendIdle

\* line 267 and the close of the file: the text of the list is written in
\* one piece (it is shorter than the buffer of 8192 bytes) over the file
\* from offset 0; the bytes another call has written further on stay
writer_dump(w) ==
    /\ w \in DOMAIN writers.calls
    /\ writers.calls[w].at = "dump"
    /\ LET text == json_dump(writers.calls[w].existing)
           file == Join(text, Slice(writers.file, TextLen(text), TextLen(writers.file)))
       IN  /\ writers' = [writers EXCEPT !.calls[w].at = "done", !.file = file]
           /\ hasil' = json_load(file)
    /\ AppendIdle

NextAppend ==
    \/ \E w \in 1..MaxWriters : writer_stat(w)
    \/ \E w \in 1..MaxWriters : writer_fstat(w)
    \/ \E w \in 1..MaxWriters : writer_read(w)
    \/ \E w \in 1..MaxWriters : writer_open(w)
    \/ \E w \in 1..MaxWriters : writer_dump(w)

SpecAppend == InitAppend /\ [][NextAppend]_vars

----------------------------------------------------------------------------
(* What the claims are stated with. *)

\* the check_single_wallet call of chk is over: it returned or it raised
Called == chk.state \in {"returned", "drained"}

\* the check of chk has returned (a result or None)
Checked == Called /\ ~chk.result.raised

\* the token-holdings call of chk answered
DebankOk == chk.debank.status = "ok"

\* entries of the answer the conversion keeps: positive amount, a symbol
KeptItems == {k \in 1..Len(chk.debank.items) :
                 chk.debank.items[k].amount > 0 /\ chk.debank.items[k].symbol # ""}

\* chains whose balance call answered with a positive balance
PositiveChains == {k \in 1..Len(chk.clients) :
                      chk.answers[k].bal_ok /\ chk.answers[k].bal > 0}

\* chains whose nonce call answered with a positive count
UsedChains == {k \in 1..Len(chk.clients) :
                  chk.answers[k].nonce_ok /\ chk.answers[k].nonce > 0}

\* an entry the claims count: positive amount and a symbol
Kept(t) == t.amount > 0 /\ t.symbol # ""

\* the sum of amount * price over the kept entries from the k-th on
RECURSIVE SumUsd(_, _)
SumUsd(items, k) ==
    IF k > Len(items) THEN 0
    ELSE (IF Kept(items[k]) THEN items[k].amount * items[k].price ELSE 0)
         + SumUsd(items, k + 1)

RECURSIVE SumTokens(_, _, _)
SumTokens(items, k, s) ==
    IF k > Len(items) THEN 0
    ELSE (IF Upper(items[k].symbol) = s /\ items[k].amount > 0 THEN items[k].amount ELSE 0)
         + SumTokens(items, k + 1, s)

RECURSIVE SumNative(_, _, _, _)
SumNative(clients, answers, k, s) ==
    IF k > Len(clients) THEN 0
    ELSE (IF clients[k].native_symbol = s /\ answers[k].bal_ok THEN answers[k].bal ELSE 0)
         + SumNative(clients, answers, k + 1, s)

RECURSIVE MaxNonce(_, _)
MaxNonce(answers, k) ==
    IF k > Len(answers) THEN 0
    ELSE Max(IF answers[k].nonce_ok THEN answers[k].nonce ELSE 0, MaxNonce(answers, k + 1))

\* how often record r occurs in a list of records
Occurrences(recs, r) == Cardinality({k \in 1..Len(recs) : recs[k] = r})

IsPrefix(a, b) == Len(a) <= Len(b) /\ \A k \in 1..Len(a) : a[k] = b[k]

\* the chains of clients at the positions in keep, in the order of clients
RECURSIVE ChainsAt(_, _, _)
ChainsAt(clients, keep, k) ==
    IF k > Len(clients) THEN <<>>
    ELSE (IF k \in keep THEN <<clients[k].chain>> ELSE <<>>) \o ChainsAt(clients, keep, k + 1)

\* where x stands in a sequence without repetitions that holds it
PosIn(seq, x) == CHOOSE k \in 1..Len(seq) : seq[k] = x

\* scan_wallets_batch is running and has not printed its final report
MidTurn == pc \in {"stats", "load", "open", "dump"}

InBatch == MidTurn \/ pc \in {"post_start", "gen", "derive", "drain", "progress",
                              "post_found", "post_empty"}

\* the final report of lines 648-659 has been printed
Reported == batch >= 1 /\ pc \in {"post_complete", "menu"}

\* every submitted candidate has been drained, each once
DrainedOnce ==
    /\ DrainedSet = DOMAIN futures
    /\ Len(drained) = Cardinality(DOMAIN futures)

\* a batch has run to its end and the menu is back
BatchOver == pc \in {"menu", "exit"} /\ batch >= 1 /\ slot = count

\* records of the running batch in a store
OfBatch(recs) == {k \in 1..Len(recs) : recs[k].batch = batch}

----------------------------------------------------------------------------
(* C1: N concurrent calls of append_to_results on a store holding k        *)
(* records leave it with exactly those k records and the N submitted ones, *)
(* each once, as a well-formed list.  Stated as in the claim; the code     *)
(* loses records.                                                          *)
C1_ConcurrentAppendsKeepAll ==
    LET n == Len(writers.calls)
    IN  (n >= 1 /\ \A w \in 1..n : writers.calls[w].at = "done") =>
          /\ hasil.valid
          /\ Len(hasil.recs) = writers.prior + n
          /\ IsPrefix(PriorRecs(writers.prior), hasil.recs)
          /\ \A w \in 1..n : Occurrences(hasil.recs, Rec(batch, w, TRUE)) = 1

(* C2: when the first batch of a run (counters zero at its start) is over, *)
(* wallets_found + empty_wallets = total_checked.  Stated as in the claim, *)
(* for runs without any I/O failure; lost increments of total_checked      *)
(* break it.                                                               *)
C2_FoundPlusEmptyIsChecked ==
    (BatchOver /\ batch = 1 /\ io.faults = 0) =>
        STATS.wallets_found + STATS.empty_wallets = STATS.total_checked

(* C3: increments of the checked counter are atomic: in the first batch    *)
(* total_checked equals the number of checks that have executed line 494,  *)
(* and a progress read never shows more than that.  Stated as in the       *)
(* claim, for runs without any I/O failure; two threads that load the same *)
(* value store the same value.                                             *)
C3_IncrementsAreAtomic ==
    (batch = 1 /\ io.faults = 0) =>
        LET incremented == {t \in DOMAIN futures : futures[t].state \in {"stored", "finished"}}
        IN  /\ STATS.total_checked = Cardinality(incremented)
            /\ progress <= Cardinality(incremented)

(* C4: at the start of every batch the five counters are 0.  Stated as in  *)
(* the claim, for runs without any I/O failure; a second batch starts with *)
(* the first one's counts.                                                 *)
C4_CountersZeroAtBatchStart ==
    (pc = "gen" /\ slot = 0 /\ io.faults = 0) => STATS = ZeroStats

C6_PartialFailureResilience ==
    /\ Called =>
          /\ ~chk.result.raised
          /\ chk.result.rpc_calls = 2 * Len(chk.clients)
          /\ (~DebankOk => chk.result.balance_usd = 0)
          /\ Len(chk.result.chains) = Cardinality(PositiveChains)
          /\ \A k \in PositiveChains :
                \E j \in 1..Len(chk.result.chains) : chk.result.chains[j] = chk.clients[k].chain
          /\ chk.result.nonce = MaxNonce(chk.answers, 1)
          /\ ((~DebankOk /\ UsedChains # {}) =>
                 chk.result.has_value /\ chk.result.balance_usd = 0)
          /\ STATS.errors = 0
          /\ STATS.total_checked = 1
    /\ chk.state = "drained" =>
          /\ STATS.errors = 0
          /\ found_count + empty_count = 1
          /\ Len(hasil.recs) + Len(empty_wallets.recs) = 1
          /\ (chk.result.has_value <=> found_count = 1)

(* C7: for every symbol, the merged coins hold the sum of the amounts of   *)
(* all token-holdings entries of that symbol plus the native balances of   *)
(* the chains with that native symbol.  Stated as in the claim; the code   *)
(* keeps only the last token-holdings entry of a symbol.                   *)
C7_CoinsAreSums ==
    Checked =>
        \A s \in {"ETH", "BNB"} :
            DictGet(chk.result.coins, s, 0) =
                SumTokens(chk.debank.items, 1, s) + SumNative(chk.clients, chk.answers, 1, s)

(* C8: every candidate whose check completed and whose result the drain    *)
(* loop has handled has exactly one record, in the found store if the      *)
(* check returned a result and in the empty store if not, and none in the  *)
(* other store.  Read between the turns of the drain loop, when no append  *)
(* has a file open.  Stated as in the claim; a write that fails leaves the *)
(* candidate without a record (C9), and a load that fails drops the        *)
(* records of the candidates before it (C10).                              *)
C8_OneRecordInOneStore ==
    ~MidTurn =>
        \A t \in ReturnedSet :
            LET v == futures[t].result.has_value
            IN  /\ Occurrences(hasil.recs, Rec(batch, t, TRUE)) = (IF v THEN 1 ELSE 0)
                /\ Occurrences(empty_wallets.recs, Rec(batch, t, FALSE)) = (IF v THEN 0 ELSE 1)

(* C9: a failed write of a record is surfaced: once a write has failed the *)
(* errors counter is above 0, and a finished batch counts as found and as  *)
(* empty only records its stores hold.  Stated as in the claim; the code   *)
(* prints the failure and goes on.                                         *)
C9_WriteFailureSurfaced ==
    /\ io.unsaved # {} => STATS.errors > 0
    /\ BatchOver =>
          /\ found_count = Cardinality(OfBatch(hasil.recs))
          /\ empty_count = Cardinality(OfBatch(empty_wallets.recs))

(* C10: the stores are append-only: the list an append is going to write   *)
(* starts with the records its store holds, also when its load fails; the  *)
(* append leaves its store with the records of that list, the ones before  *)
(* the new record, in place; and no other step changes a store.  Stated as *)
(* in the claim; a failed load makes the append write a list of one        *)
(* record, and a failed write leaves the file empty.                       *)
C10_StoresAppendOnly ==
    [][LET store  == IF CurrentFound THEN hasil ELSE empty_wallets
           store2 == IF CurrentFound THEN hasil' ELSE empty_wallets'
       IN  /\ pc \notin {"open", "dump"} =>
                 /\ IsPrefix(hasil.recs, hasil'.recs)
                 /\ IsPrefix(empty_wallets.recs, empty_wallets'.recs)
           /\ (pc = "load" /\ pc' = "open") => IsPrefix(store.recs, io'.existing)
           /\ pc \in {"open", "dump"} =>
                 /\ CurrentFound => empty_wallets' = empty_wallets
                 /\ ~CurrentFound => hasil' = hasil
                 /\ pc' # "dump" => IsPrefix(SubSeq(io.existing, 1, Len(io.existing) - 1), store2.recs)]_vars

(* C11: when the derivation of a slot's candidate fails, the candidate is  *)
(* not submitted to the pool, the errors counter goes up by exactly 1, and *)
(* the generate loop goes on with the next slot.  Stated as in the claim;  *)
(* the code drops the candidate and counts nothing.                        *)
C11_DerivationFailureCounted ==
    [][(pc = "derive" /\ slot' = slot + 1 /\ DOMAIN futures' = DOMAIN futures) =>
          /\ STATS'.errors = STATS.errors + 1
          /\ pc' = "gen"
          /\ slot' <= count]_vars

(* C12: when the first batch of a run is over, with derivationErrors the   *)
(* number of its slots whose derivation failed, total_generated +          *)
(* derivationErrors = count and total_checked = total_generated -          *)
(* derivationErrors.  Stated as in the claim, for runs without any I/O     *)
(* failure; the code counts a phrase as generated before it is derived.    *)
C12_GeneratedPlusDerivationErrorsIsCount ==
    (BatchOver /\ batch = 1 /\ io.faults = 0) =>
        LET derivationErrors == count - Cardinality(DOMAIN futures)
        IN  /\ STATS.total_generated + derivationErrors = count
            /\ STATS.total_checked = STATS.total_generated - derivationErrors

(* C13: in every state of a batch run with W workers, at most W            *)
(* check_single_wallet executions have started and not yet returned.       *)
C13_AtMostWInFlight == Running # {} => Cardinality(Running) <= max_workers

\* the pool is full: W checks are running and a submitted candidate waits
C13_Witness ==
    /\ Cardinality(Running) = max_workers
    /\ Queued # {}

(* C14: results are drained in completion order: a candidate whose check   *)
(* completed before that of a drained candidate B has been drained before  *)
(* B.  Stated as in the claim; the checks that completed while the         *)
(* generate loop was still running are drained in the iteration order of a *)
(* set.                                                                    *)
C14_DrainedInCompletionOrder ==
    \A j \in 1..Len(drained) :
        \A a \in Done :
            PosIn(finished, a) < PosIn(finished, drained[j]) =>
                \E i \in 1..(j - 1) : drained[i] = a

(* C15: every batch runs to completion: with fair scheduling and network   *)
(* calls that return or time out, a running scan_wallets_batch reaches its *)
(* final report, at the report every submitted candidate has been drained  *)
(* exactly once, and no candidate is ever drained twice.  Stated as in the *)
(* claim; a batch started with max_workers = -1 (C23) ends at line 582     *)
(* with ValueError and never reports.                                      *)
C15_BatchRunsToCompletion ==
    /\ InBatch ~> (Reported /\ DrainedOnce)
    /\ [](Reported => DrainedOnce)
    /\ [](\A i, j \in 1..Len(drained) : drained[i] = drained[j] => i = j)

(* C16: the core does not block on the notification port: while the        *)
(* delivery of a notification is pending, the batch can take its next      *)
(* step: generate and submit the first candidate after the start message,  *)
(* drain a completed result after a found message or a summary.  Stated as *)
(* in the claim; the main thread sits in requests.post until the answer or *)
(* the timeout.                                                            *)
C16_CoreNotBlockedByNotification ==
    /\ pc = "post_start" => ENABLED generate_slot
    /\ (pc \in {"post_found", "post_empty"} /\ Done \ DrainedSet # {}) =>
          ENABLED (\E t \in 1..MaxGenerated : drain(t))

(* C17: notification outcomes never affect the scan outcome.  The step     *)
(* that ends a delivery, whatever its outcome, changes no counter, no      *)
(* store and no future, and leaves the main thread where the code goes on  *)
(* after the call; and at every moment the counts, and between the turns   *)
(* of the drain loop the stores, are what the drained candidates and their *)
(* results make them (as long as no load or write of a store has failed),  *)
(* and an error is counted only when the drain loop takes a future whose   *)
(* check raised: two runs with the same candidates, answers and schedule   *)
(* end with the same counters and stores, whether Telegram is disabled,    *)
(* delivers or fails.                                                      *)
C17_NotificationsDoNotInterfere ==
    /\ [][(pc \in Posting /\ pc' # pc) =>
            /\ UNCHANGED <<STATS, found_count, empty_count, hasil, empty_wallets,
                           futures, finished, drained, batch, count, slot>>
            /\ pc = "post_start" => pc' = ThreadPoolExecutor_enter(max_workers)
            /\ pc = "post_found" => pc' = "progress"
            /\ pc = "post_empty" => pc' = "drain"
            /\ pc = "post_complete" => pc' = "menu"]_vars
    /\ [][STATS'.errors = STATS.errors +
            (IF Len(drained') > Len(drained) /\ futures[drained'[Len(drained')]].result.raised
             THEN 1 ELSE 0)]_vars
    /\ [](/\ found_count = Cardinality({t \in ReturnedSet : futures[t].result.has_value})
          /\ empty_count = Cardinality({t \in ReturnedSet : ~futures[t].result.has_value})
          /\ (io.faults = 0 /\ ~MidTurn) =>
                /\ Cardinality(OfBatch(hasil.recs)) = found_count
                /\ Cardinality(OfBatch(empty_wallets.recs)) = empty_count
                /\ hasil.valid /\ empty_wallets.valid)

\* a batch is over in which every message posted was lost, the one about
\* the found wallet too; the wallet is counted and stored
C17_Witness ==
    /\ BatchOver
    /\ TELEGRAM_ENABLED
    /\ telegram.lost /\ ~telegram.delivered
    /\ found_count = 1
    /\ Cardinality(OfBatch(hasil.recs)) = 1
    /\ STATS.errors = 0

(* C18: a missing vocabulary is fatal at startup: as long as the word list *)
(* is not loaded the program is in main or has left it, the menu has not   *)
(* been reached, no batch has been started and                             *)
(* generate_random_12word_phrase has not been called; and a generate step  *)
(* is only ever taken with the word list loaded.                           *)
C18_NoVocabularyNoBatch ==
    /\ [](BIP39_WORDLIST = "None" =>
             /\ pc \in {"start", "exit"}
             /\ batch = 0
             /\ slot = 0
             /\ STATS.total_generated = 0)
    /\ [][slot' = slot + 1 => BIP39_WORDLIST = "words" /\ MNEMONIC_AVAILABLE]_vars

\* mnemonic is installed, loading the word list failed, main has returned
C18_Witness ==
    /\ MNEMONIC_AVAILABLE
    /\ BIP39_WORDLIST = "None"
    /\ pc = "exit"
    /\ batch = 0

(* C19: for every list of entries the token-holdings source returns, the   *)
(* sample's total is the sum of amount * price over exactly the entries    *)
(* with a positive amount and a symbol, its coins are the symbols of those *)
(* entries, and the other entries change nothing: the list without them    *)
(* gives the same sample.  The result of the check carries that total.     *)
(* (Totals are in halves of a dollar: 1.5 ETH at 2000 is 6000.)            *)
C19_TotalUsdIsSumOverKept ==
    (Checked /\ DebankOk) =>
        LET items  == chk.debank.items
            sample == fetch_debank_for_address(chk.debank)
        IN  /\ sample.some
            /\ sample.balance_usd = SumUsd(items, 1)
            /\ DOMAIN sample.coins = {Upper(items[k].symbol) : k \in KeptItems}
            /\ sample = fetch_debank_for_address([status |-> "ok",
                                                  items  |-> SelectSeq(items, Kept)])
            /\ chk.result.balance_usd = SumUsd(items, 1)
            /\ (Len(items) = 1 /\ items[1] = [symbol |-> "ETH", amount |-> 3, price |-> 2000])
                  => sample.balance_usd = 6000

\* 1.5 ETH at 2000 next to an entry with a negative amount and a price: the
\* total is 3000 dollars
C19_Witness ==
    /\ Checked /\ DebankOk
    /\ \E k \in 1..Len(chk.debank.items) :
          chk.debank.items[k] = [symbol |-> "ETH", amount |-> 3, price |-> 2000]
    /\ \E k \in 1..Len(chk.debank.items) : chk.debank.items[k] = NegativeEntry
    /\ chk.result.balance_usd = 6000

(* C20: the nonce of a check result is the maximum of the transaction      *)
(* counts the chains' nonce calls returned, a failed call counting as 0;   *)
(* it is at least every count that was returned, so no later chain lowers  *)
(* it; and with no chains configured it is 0.                              *)
C20_NonceIsMaximum ==
    Checked =>
        LET counts == {fetch_nonce_for_chain(chk.answers[k]).val : k \in 1..Len(chk.clients)}
        IN  /\ \A n \in counts : chk.result.nonce >= n
            /\ chk.result.nonce \in counts \cup {0}
            /\ (\A k \in 1..Len(chk.clients) : ~chk.answers[k].nonce_ok) => chk.result.nonce = 0
            /\ Len(chk.clients) = 0 => chk.result.nonce = 0
            /\ (chk.result.nonce > 0) => chk.result.has_value

\* the first chain reports 5 transactions, the second 3 or nothing: the
\* nonce stays 5
C20_Witness ==
    /\ Checked
    /\ Len(chk.clients) = 2
    /\ chk.answers[1].nonce_ok /\ chk.answers[1].nonce = 5
    /\ (~chk.answers[2].nonce_ok \/ chk.answers[2].nonce = 3)
    /\ chk.result.nonce = 5

(* C21: the chains of a check result are exactly the configured chains     *)
(* whose balance call answered with a balance above 0, in the order they   *)
(* were asked and each once; a chain with balance 0, with a failed balance *)
(* call or with only a positive transaction count is not listed.           *)
C21_ChainsArePositiveBalances ==
    Checked =>
        LET chains == chk.result.chains
        IN  /\ chains = ChainsAt(chk.clients, PositiveChains, 1)
            /\ \A i, j \in 1..Len(chains) : chains[i] = chains[j] => i = j
            /\ \A k \in 1..Len(chk.clients) :
                  (~chk.answers[k].bal_ok \/ chk.answers[k].bal = 0) =>
                      \A j \in 1..Len(chains) : chains[j] # chk.clients[k].chain

\* of two chains the first holds a balance, the second only reports
\* transactions: the first alone is listed
C21_Witness ==
    /\ Checked
    /\ Len(chk.clients) = 2
    /\ chk.answers[1].bal_ok /\ chk.answers[1].bal > 0
    /\ chk.answers[2].bal_ok /\ chk.answers[2].bal = 0
    /\ chk.answers[2].nonce_ok /\ chk.answers[2].nonce > 0
    /\ chk.result.chains = <<chk.clients[1].chain>>

(* C22: candidates are never deduplicated: in a run whose slots all draw   *)
(* the same phrase, the candidate of every slot can be submitted whatever  *)
(* was submitted before, every submitted one is drained on its own and,    *)
(* when its check returned, counted on its own, and (as long as no load or *)
(* write of a store has failed) each has its own record, so that a store   *)
(* holds as many records with that one address as candidates were routed   *)
(* to it.                                                                  *)
C22_NoDeduplication ==
    random = "repeat" =>
        /\ \A t \in DOMAIN futures : futures[t].address = Address(batch, t)
        /\ (pc = "gen" /\ slot < count) => ENABLED generate_slot
        /\ pc = "derive" => ENABLED (submit_slot /\ (slot + 1) \in DOMAIN futures')
        /\ (BatchOver /\ io.faults = 0) =>
              /\ DrainedSet = DOMAIN futures
              /\ found_count + empty_count = Cardinality(ReturnedSet)
              /\ Cardinality(OfBatch(hasil.recs)) = found_count
              /\ Cardinality(OfBatch(empty_wallets.recs)) = empty_count
              /\ \A k \in 1..Len(hasil.recs) : hasil.recs[k].address = Address(batch, 1)
              /\ \A k \in 1..Len(empty_wallets.recs) :
                    empty_wallets.recs[k].address = Address(batch, 1)

\* two slots of one batch drew the same phrase: the empty store holds two
\* records with the same address
C22_Witness ==
    /\ random = "repeat"
    /\ BatchOver
    /\ Cardinality(DOMAIN futures) = 2
    /\ \E i, j \in 1..Len(empty_wallets.recs) :
          /\ i # j
          /\ empty_wallets.recs[i].address = empty_wallets.recs[j].address
          /\ empty_wallets.recs[i].batch = empty_wallets.recs[j].batch

(* C23: every batch the menu starts has count >= 1 and max_workers >= 1:   *)
(* once scan_wallets_batch has been called, both hold.  Stated as in the   *)
(* claim; a negative concurrent_workers reaches scan_wallets_batch.        *)
C23_BatchHasCountAndWorkers ==
    batch >= 1 => (count >= 1 /\ max_workers >= 1)

(* C24: within one process the stores are written only by the main thread, *)
(* in the append of a turn of its drain loop, one store per turn, and a    *)
(* turn ends before the next future is taken, so no two appends overlap:   *)
(* an append finds its store complete and is the only one to have the file *)
(* open.  When no load or write fails, every turn adds to a store exactly  *)
(* what it adds to the batch's count, so that a batch increases the found  *)
(* store by found_count records and the empty store by empty_count         *)
(* records, under every interleaving of the pool threads.                  *)
C24_AppendsByDrainThreadOnly ==
    /\ [][(hasil' # hasil \/ empty_wallets' # empty_wallets) =>
            /\ pc \in {"open", "dump"}
            /\ drained' = drained
            /\ IF CurrentFound THEN empty_wallets' = empty_wallets ELSE hasil' = hasil]_vars
    /\ [][Len(drained') > Len(drained) =>
            /\ pc = "drain"
            /\ Len(drained') = Len(drained) + 1
            /\ found_count' + empty_count' <= found_count + empty_count + 1
            /\ UNCHANGED <<hasil, empty_wallets>>]_vars
    /\ [](io.faults = 0 =>
            LET f == IF MidTurn /\ CurrentFound THEN 1 ELSE 0
                e == IF MidTurn /\ ~CurrentFound THEN 1 ELSE 0
            IN  /\ pc # "dump" =>
                      /\ hasil.valid /\ empty_wallets.valid
                      /\ Cardinality(OfBatch(hasil.recs)) = found_count - f
                      /\ Cardinality(OfBatch(empty_wallets.recs)) = empty_count - e
                /\ pc = "dump" =>
                      /\ (IF CurrentFound THEN empty_wallets ELSE hasil).valid
                      /\ (IF CurrentFound THEN hasil ELSE empty_wallets) = Truncated
                      /\ Cardinality(OfBatch(io.existing)) =
                            (IF CurrentFound THEN found_count ELSE empty_count)
                      /\ Cardinality(OfBatch((IF CurrentFound THEN empty_wallets
                                              ELSE hasil).recs)) =
                            (IF CurrentFound THEN empty_count ELSE found_count))

\* two checks ran at the same time (both read the same total_checked), one
\* found and one empty; the batch is over and each store has gained its one
\* record
C24_Witness ==
    /\ BatchOver
    /\ io.faults = 0
    /\ batch = 1
    /\ DOMAIN futures = {1, 2}
    /\ futures[1].tmp = futures[2].tmp
    /\ found_count = 1 /\ empty_count = 1
    /\ Len(hasil.recs) = 1 /\ Len(empty_wallets.recs) = 1

(* C25: nothing of a batch is drained, counted as found or empty, or      *)
(* written to a store before the generate loop has handled all count      *)
(* slots; the loop never waits for a check (while slots remain, the next  *)
(* one can be handled whatever the pool threads are doing), so every      *)
(* submitted task that has not finished is either queued or one of the    *)
(* at most max_workers being executed.                                    *)
C25_DrainAfterAllSubmitted ==
    /\ [][Len(drained') > Len(drained) => (slot = count /\ slot' = count)]_vars
    /\ []((batch >= 1 /\ slot < count) =>
            /\ drained = <<>>
            /\ found_count = 0 /\ empty_count = 0
            /\ OfBatch(hasil.recs) = {} /\ OfBatch(empty_wallets.recs) = {}
            /\ pc \in {"gen", "derive", "post_start", "exit"})
    /\ []((pc = "gen" /\ slot < count) => ENABLED generate_slot)
    /\ [](pc = "derive" => ENABLED submit_slot)
    /\ [](pc \in {"gen", "derive"} =>
            /\ DOMAIN futures \subseteq 1..slot
            /\ Cardinality(Queued) + Cardinality(Running) + Cardinality(Done)
                  = Cardinality(DOMAIN futures)
            /\ Cardinality(Queued) >= Cardinality(DOMAIN futures)
                  - Cardinality(Done) - max_workers)

\* both slots of a batch of two have been submitted before anything was
\* drained; the pool of one thread executes one check and the other waits
\* in the queue
C25_Witness ==
    /\ pc = "gen"
    /\ count = 2 /\ slot = count
    /\ max_workers = 1
    /\ Cardinality(Running) = 1
    /\ Cardinality(Queued) = 1
    /\ drained = <<>>

(* C26: in every state of the first batch (the counters start at 0), in    *)
(* the middle of the drain loop too and under every interleaving of the    *)
(* pool threads, wallets_found + empty_wallets <= total_checked <=         *)
(* total_generated <= count.  A lost increment of total_checked leaves it  *)
(* below the number of results the drain loop has counted.  Stated for    *)
(* runs without any I/O failure.                                           *)
C26_CounterChain ==
    (batch = 1 /\ io.faults = 0) =>
        /\ STATS.wallets_found + STATS.empty_wallets <= STATS.total_checked
        /\ STATS.total_checked <= STATS.total_generated
        /\ STATS.total_generated <= count

====
